---- MODULE Spec2Model ----
(***************************************************************************)
(* HiddenStatesExtractorMixin (vllm/model_executor/hidden_states_mixin.py) *)
(* as a state machine: the object's `model` attribute, the model's         *)
(* `aux_hidden_state_layers` attribute, the layers reported by             *)
(* get_model_layers(), and the outcome of the last call made on the mixin. *)
(* The backend feasibility gate and the response contract, which the       *)
(* repository's tests exercise but whose code is elsewhere, are modelled   *)
(* from the specification in a second state machine (GateSpec).            *)
(***************************************************************************)
EXTENDS Integers, Sequences, FiniteSets

\* ---------------------------------------------------------------- bounds
\* Largest layer count a model of the mixin may have.
MaxLayers == 2
\* Longest layer list / tuple passed in a sequence of calls on the mixin.
MaxLen == 1
\* Longest layer list / tuple of a single configuration call (ShotSpec).
MaxShotLen == 2
\* Layer count of the model served behind the feasibility gate.
MaxGateLayers == 3
\* Largest component of an activation vector the engine returns.
MaxActivation == 1

\* Layer indices a caller may pass: every in-range index of the largest
\* model, its negative counterparts, and one value beyond each end.
Indices == (0 - (MaxLayers + 1)) .. MaxLayers

RECURSIVE SeqsUpTo(_, _)
SeqsUpTo(S, n) ==
    IF n = 0 THEN {<<>>}
    ELSE LET shorter == SeqsUpTo(S, n - 1)
         IN  shorter \cup {Append(s, x) : s \in {t \in shorter : Len(t) = n - 1}, x \in S}

\* The tuples / lists of layer indices the calls are tried on.
Lists == SeqsUpTo(Indices, MaxLen)
ShotLists == SeqsUpTo(Indices, MaxShotLen)

\* hidden_states_param: Optional[Union[bool, list[int]]], plus a value of
\* another type ("other": a tuple, an int, a string ...).
ParamsOver(lists) ==
    {[kind |-> k, items |-> <<>>] : k \in {"None", "False", "True", "other"}}
        \cup {[kind |-> "list", items |-> l] : l \in lists}
Params == ParamsOver(Lists)
ShotParams == ParamsOver(ShotLists)

\* The layers of the model behind the gate, and the activations it returns.
GateLayers == 0 .. (MaxGateLayers - 1)
Activations == 0 .. MaxActivation

VARIABLES
    hasModel,                \* hasattr(self, 'model')
    hasAttr,                 \* hasattr(self.model, 'aux_hidden_state_layers')
    aux_hidden_state_layers, \* self.model.aux_hidden_state_layers (a tuple)
    modelLayers,             \* len(self.model.layers) of the underlying model
    layersKnown,             \* get_model_layers() returns the layers, not None
    last,                    \* the last call on the mixin: its argument, what
                             \* get_model_layers() and has_hidden_states_enabled()
                             \* returned as it started, and the exception it raised
    request,                 \* gate: per-request configuration record
    capability,              \* gate: the active backend's capability
    outcome,                 \* gate: ExtractionOutcome of the request
    output                   \* gate: the per-output hidden_states field

mixinVars == <<hasModel, hasAttr, aux_hidden_state_layers, modelLayers, layersKnown, last>>
gateVars == <<request, capability, outcome, output>>
vars == <<hasModel, hasAttr, aux_hidden_state_layers, modelLayers, layersKnown, last,
          request, capability, outcome, output>>

\* ------------------------------------------------------------ the mixin
\* get_model_layers(): the model's layers, or None if unavailable.
get_model_layers ==
    IF layersKnown THEN [isNone |-> FALSE, len |-> modelLayers]
    ELSE [isNone |-> TRUE, len |-> 0]

\* get_aux_hidden_state_layers(): never fails, tuple() when nothing is attached.
get_aux_hidden_state_layers ==
    IF ~hasModel \/ ~hasAttr THEN <<>> ELSE aux_hidden_state_layers

\* has_hidden_states_enabled()
has_hidden_states_enabled == Len(get_aux_hidden_state_layers) > 0

\* [layer for layer in layers if layer >= num_layers or layer < 0]
invalid_layers(layers, num_layers) ==
    SelectSeq(layers, LAMBDA layer : layer >= num_layers \/ layer < 0)

MixinInit ==
    /\ hasModel = FALSE
    /\ hasAttr = FALSE
    /\ aux_hidden_state_layers = <<>>
    /\ modelLayers \in 0 .. MaxLayers
    /\ layersKnown \in BOOLEAN
    /\ last = [op |-> "none", param |-> [kind |-> "None", items |-> <<>>],
               hadModel |-> FALSE, wasEnabled |-> FALSE,
               layers |-> [isNone |-> TRUE, len |-> 0], raised |-> "", invalid |-> <<>>]

NoOutcome == [kind |-> "None", honored |-> {}, dropped |-> {}]
NoOutput == [phase |-> "idle", isNone |-> TRUE, map |-> <<>>]

GateInit ==
    /\ request = [enabled |-> FALSE, layers |-> {}]
    /\ capability = [kind |-> "Unrestricted", available |-> {}]
    /\ outcome = NoOutcome
    /\ output = NoOutput

Init == MixinInit /\ GateInit

\* Variant of SetAuxOutcome that assigns before it validates: the tuple is
\* stored even when the ValueError is raised.
SetAuxOutcome_StoreFirst(layers) ==
    IF ~hasModel
    THEN [raised |-> "AttributeError", invalid |-> <<>>, store |-> FALSE]
    ELSE LET model_layers == get_model_layers
             invalid == IF model_layers.isNone THEN <<>>
                        ELSE invalid_layers(layers, model_layers.len)
         IN  IF invalid # <<>>
             THEN [raised |-> "ValueError", invalid |-> invalid, store |-> TRUE]
             ELSE [raised |-> "", invalid |-> <<>>, store |-> TRUE]

\* What set_aux_hidden_state_layers(layers) does in the current state: the
\* exception it raises ("" for none), the invalid_layers its ValueError
\* carries, and whether line 63 (the assignment) is reached.
SetAuxOutcome(layers) ==
    IF ~hasModel
    THEN [raised |-> "AttributeError", invalid |-> <<>>, store |-> FALSE]
    ELSE LET model_layers == get_model_layers
             invalid == IF model_layers.isNone THEN <<>>
                        ELSE invalid_layers(layers, model_layers.len)
         IN  IF invalid # <<>>
             THEN [raised |-> "ValueError", invalid |-> invalid, store |-> FALSE]
             ELSE [raised |-> "", invalid |-> <<>>, store |-> TRUE]

\* Variant of StoredLayers that assigns only `if layers:`, so an empty tuple
\* leaves the previous configuration in place.
StoredLayers_KeepOnEmpty(layers) ==
    IF layers = <<>> THEN get_aux_hidden_state_layers ELSE layers

\* self.model.aux_hidden_state_layers = layers
StoredLayers(layers) == layers

\* tuple(range(n))
RangeTuple(n) == [i \in 1 .. n |-> i - 1]

\* Variant of ApiLayers that asks for the layer count before it looks at
\* the parameter, so None/False fail when the count is unknown.
ApiLayers_CountFirst(param) ==
    LET model_layers == get_model_layers
    IN  IF model_layers.isNone
        THEN [raised |-> "RuntimeError", layers |-> <<>>]
        ELSE IF param.kind \in {"None", "False"}
        THEN [raised |-> "", layers |-> <<>>]
        ELSE IF param.kind = "True"
        THEN [raised |-> "", layers |-> RangeTuple(model_layers.len)]
        ELSE IF param.kind # "list"
        THEN [raised |-> "TypeError", layers |-> <<>>]
        ELSE [raised |-> "", layers |-> param.items]

\* The first half of set_hidden_state_layers: hidden_states_param to the
\* internal tuple, or the exception raised on the way.
ApiLayers(param) ==
    IF param.kind \in {"None", "False"}
    THEN [raised |-> "", layers |-> <<>>]
    ELSE IF param.kind = "True"
    THEN LET model_layers == get_model_layers
         IN  IF model_layers.isNone
             THEN [raised |-> "RuntimeError", layers |-> <<>>]
             ELSE [raised |-> "", layers |-> RangeTuple(model_layers.len)]
    ELSE IF param.kind # "list"
    THEN [raised |-> "TypeError", layers |-> <<>>]
    ELSE [raised |-> "", layers |-> param.items]

\* The whole of set_hidden_state_layers(param): conversion, then
\* set_aux_hidden_state_layers on the converted tuple.
SetHiddenOutcome(param) ==
    LET api == ApiLayers(param)
    IN  IF api.raised # ""
        THEN [raised |-> api.raised, invalid |-> <<>>, store |-> FALSE, layers |-> <<>>]
        ELSE LET o == SetAuxOutcome(api.layers)
             IN  [raised |-> o.raised, invalid |-> o.invalid, store |-> o.store,
                  layers |-> api.layers]

\* Variant of __init_hidden_states__ without the `if not hasattr` test: the
\* attribute is set to tuple() on every successful call.
init_hidden_states_AlwaysReset ==
    /\ last' = [op |-> "init", param |-> [kind |-> "None", items |-> <<>>],
                hadModel |-> hasModel, wasEnabled |-> has_hidden_states_enabled,
                layers |-> get_model_layers,
                raised |-> IF hasModel THEN "" ELSE "AttributeError",
                invalid |-> <<>>]
    /\ IF hasModel
       THEN hasAttr' = TRUE /\ aux_hidden_state_layers' = <<>>
       ELSE UNCHANGED <<hasAttr, aux_hidden_state_layers>>
    /\ UNCHANGED <<hasModel, modelLayers, layersKnown, gateVars>>

\* __init_hidden_states__()
init_hidden_states ==
    /\ last' = [op |-> "init", param |-> [kind |-> "None", items |-> <<>>],
                hadModel |-> hasModel, wasEnabled |-> has_hidden_states_enabled,
                layers |-> get_model_layers,
                raised |-> IF hasModel THEN "" ELSE "AttributeError",
                invalid |-> <<>>]
    /\ IF hasModel /\ ~hasAttr
       THEN hasAttr' = TRUE /\ aux_hidden_state_layers' = <<>>
       ELSE UNCHANGED <<hasAttr, aux_hidden_state_layers>>
    /\ UNCHANGED <<hasModel, modelLayers, layersKnown, gateVars>>

\* set_aux_hidden_state_layers(layers)
set_aux_hidden_state_layers(layers) ==
    LET o == SetAuxOutcome(layers)
    IN  /\ last' = [op |-> "set_aux", param |-> [kind |-> "tuple", items |-> layers],
                    hadModel |-> hasModel, wasEnabled |-> has_hidden_states_enabled,
                    layers |-> get_model_layers, raised |-> o.raised,
                    invalid |-> o.invalid]
        /\ IF o.store
           THEN hasAttr' = TRUE /\ aux_hidden_state_layers' = StoredLayers(layers)
           ELSE UNCHANGED <<hasAttr, aux_hidden_state_layers>>
        /\ UNCHANGED <<hasModel, modelLayers, layersKnown, gateVars>>

\* set_hidden_state_layers(hidden_states_param)
set_hidden_state_layers(param) ==
    LET o == SetHiddenOutcome(param)
    IN  /\ last' = [op |-> "set_hidden", param |-> param,
                    hadModel |-> hasModel, wasEnabled |-> has_hidden_states_enabled,
                    layers |-> get_model_layers, raised |-> o.raised,
                    invalid |-> o.invalid]
        /\ IF o.store
           THEN hasAttr' = TRUE /\ aux_hidden_state_layers' = StoredLayers(o.layers)
           ELSE UNCHANGED <<hasAttr, aux_hidden_state_layers>>
        /\ UNCHANGED <<hasModel, modelLayers, layersKnown, gateVars>>

\* The model's __init__ creates self.model (before __init_hidden_states__).
CreateModel ==
    /\ ~hasModel
    /\ hasModel' = TRUE
    /\ UNCHANGED <<hasAttr, aux_hidden_state_layers, modelLayers, layersKnown, last, gateVars>>

\* get_model_layers() starts returning the layers (the model is loaded).
LayersBecomeKnown ==
    /\ ~layersKnown
    /\ layersKnown' = TRUE
    /\ UNCHANGED <<hasModel, hasAttr, aux_hidden_state_layers, modelLayers, last, gateVars>>

\* get_model_layers() starts returning None (the layers are unavailable).
LayersBecomeUnknown ==
    /\ layersKnown
    /\ layersKnown' = FALSE
    /\ UNCHANGED <<hasModel, hasAttr, aux_hidden_state_layers, modelLayers, last, gateVars>>

Next ==
    \/ init_hidden_states
    \/ \E layers \in Lists : set_aux_hidden_state_layers(layers)
    \/ \E param \in Params : set_hidden_state_layers(param)
    \/ CreateModel
    \/ LayersBecomeKnown
    \/ LayersBecomeUnknown

Spec == Init /\ [][Next]_vars

\* One configuration call on a mixin that no call has configured yet, on the
\* longer lists of ShotLists.
ShotSetAux(layers) ==
    /\ last.op \in {"none", "init"}
    /\ set_aux_hidden_state_layers(layers)

ShotSetHidden(param) ==
    /\ last.op \in {"none", "init"}
    /\ set_hidden_state_layers(param)

ShotInit ==
    /\ last.op = "none"
    /\ init_hidden_states

ShotNext ==
    \/ ShotInit
    \/ \E layers \in ShotLists : ShotSetAux(layers)
    \/ \E param \in ShotParams : ShotSetHidden(param)
    \/ CreateModel
    \/ LayersBecomeKnown
    \/ LayersBecomeUnknown

ShotSpec == Init /\ [][ShotNext]_vars

\* ------------------------------------------- the backend feasibility gate
Full(layers) == [kind |-> "Full", honored |-> layers, dropped |-> {}]
Partial(honored, dropped) == [kind |-> "Partial", honored |-> honored, dropped |-> dropped]
Unavailable == [kind |-> "Unavailable", honored |-> {}, dropped |-> {}]

\* Variant of gate without the subset test: a request the backend can honor
\* in full is reported as Partial, an empty request as Unavailable.
gate_NoSubsetTest(requested, cap) ==
    IF cap.kind = "Unrestricted" THEN Full(requested)
    ELSE IF requested \cap cap.available # {}
    THEN Partial(requested \cap cap.available, requested \ cap.available)
    ELSE Unavailable

\* gate(requested, capability) -> ExtractionOutcome
gate(requested, cap) ==
    IF cap.kind = "Unrestricted" THEN Full(requested)
    ELSE IF requested \subseteq cap.available THEN Full(requested)
    ELSE IF requested \cap cap.available # {}
    THEN Partial(requested \cap cap.available, requested \ cap.available)
    ELSE Unavailable

\* Variant of Respond that answers an Unavailable outcome with an empty map
\* instead of the absence marker.
Respond_EmptyMap(req, out, raw) ==
    IF ~req.enabled \/ out.kind = "None"
    THEN [phase |-> "done", isNone |-> TRUE, map |-> <<>>]
    ELSE [phase |-> "done", isNone |-> FALSE,
          map |-> [layer \in out.honored |-> raw[layer]]]

\* The hidden_states field of one output: the absence marker, or the raw
\* per-layer data of the engine reshaped to the honored layers.
Respond(req, out, raw) ==
    IF ~req.enabled \/ out.kind = "Unavailable" \/ out.kind = "None"
    THEN [phase |-> "done", isNone |-> TRUE, map |-> <<>>]
    ELSE [phase |-> "done", isNone |-> FALSE,
          map |-> [layer \in out.honored |-> raw[layer]]]

\* A generation request reaches the engine boundary: its configuration
\* record is attached and the gate decides what the backend can honor.
Configure(enabled, requested, cap) ==
    /\ output.phase = "idle"
    /\ request' = [enabled |-> enabled, layers |-> requested]
    /\ capability' = cap
    /\ outcome' = IF enabled THEN gate(requested, cap) ELSE NoOutcome
    /\ output' = [phase |-> "configured", isNone |-> TRUE, map |-> <<>>]
    /\ UNCHANGED mixinVars

\* The engine has run the forward pass and returns its per-layer data.
Generate(raw) ==
    /\ output.phase = "configured"
    /\ output' = Respond(request, outcome, raw)
    /\ UNCHANGED <<request, capability, outcome, mixinVars>>

\* The output has been delivered; the next request may come.
NextRequest ==
    /\ output.phase = "done"
    /\ request' = [enabled |-> FALSE, layers |-> {}]
    /\ capability' = [kind |-> "Unrestricted", available |-> {}]
    /\ outcome' = NoOutcome
    /\ output' = NoOutput
    /\ UNCHANGED mixinVars

Capabilities ==
    {[kind |-> "Unrestricted", available |-> {}]}
        \cup {[kind |-> "Restricted", available |-> a] : a \in SUBSET GateLayers}

GateNext ==
    \/ \E requested \in SUBSET GateLayers, cap \in Capabilities :
           Configure(TRUE, requested, cap)
    \/ \E cap \in Capabilities : Configure(FALSE, {}, cap)
    \/ \E raw \in [GateLayers -> Activations] : Generate(raw)
    \/ NextRequest

GateSpec == Init /\ [][GateNext]_vars

\* ------------------------------------------------------------ properties
SeqToSet(s) == {s[i] : i \in DOMAIN s}

\* index if index >= 0 else num_layers + index
Normalized(index, num_layers) == IF index >= 0 THEN index ELSE num_layers + index

\* Every index of items lies in [-num_layers, num_layers).
AllInRange(items, num_layers) ==
    \A i \in DOMAIN items : 0 - num_layers <= items[i] /\ items[i] < num_layers

\* The indices of items that are >= num_layers or < -num_layers, in order.
Offending(items, num_layers) ==
    SelectSeq(items, LAMBDA index : index >= num_layers \/ index < 0 - num_layers)

StrictlyAscending(s) == \A i, j \in DOMAIN s : i < j => s[i] < s[j]

\* The last call was set_hidden_state_layers on an explicit list, made on a
\* mixin whose model existed and reported its layer count.
ListCallOnKnownModel ==
    /\ last.op = "set_hidden"
    /\ last.param.kind = "list"
    /\ last.hadModel
    /\ ~last.layers.isNone

\* C1: set_hidden_state_layers on an explicit list whose indices all lie in
\* [-N, N) succeeds, and get_aux_hidden_state_layers() then holds exactly the
\* normalized indices (a negative i as N + i).
C1_NegativeIndicesNormalized ==
    (ListCallOnKnownModel /\ AllInRange(last.param.items, last.layers.len))
        => /\ last.raised = ""
           /\ SeqToSet(get_aux_hidden_state_layers)
                = {Normalized(last.param.items[i], last.layers.len) :
                       i \in DOMAIN last.param.items}

\* C2: a layer list that has been configured is stored free of duplicates
\* and in ascending order, and every reordering or duplication of the list
\* configures the same tuple.
C2_ConfiguredAscendingNoDuplicates ==
    (ListCallOnKnownModel /\ last.raised = "")
        => /\ StrictlyAscending(get_aux_hidden_state_layers)
           /\ \A other \in ShotLists :
                  SeqToSet(other) = SeqToSet(last.param.items)
                      => StoredLayers(other) = get_aux_hidden_state_layers

\* C3: with a known layer count N, a list holding an index >= N or < -N is
\* rejected with a ValueError that carries exactly those original values,
\* and none of the list's in-range indices.
C3_ErrorListsExactlyOffending ==
    (/\ last.op \in {"set_hidden", "set_aux"}
     /\ last.param.kind \in {"list", "tuple"}
     /\ last.hadModel
     /\ ~last.layers.isNone
     /\ Offending(last.param.items, last.layers.len) # <<>>)
        => /\ last.raised = "ValueError"
           /\ last.invalid = Offending(last.param.items, last.layers.len)

\* C4: hidden_states=True configures exactly 0 .. N-1 when N > 0, fails when
\* the layer count is unknown or zero, and never succeeds with an empty
\* configured tuple.
C4_AllLayersNeverEmpty ==
    (last.op = "set_hidden" /\ last.param.kind = "True" /\ last.hadModel)
        => /\ (~last.layers.isNone /\ last.layers.len > 0)
                 => (last.raised = ""
                       /\ get_aux_hidden_state_layers = RangeTuple(last.layers.len))
           /\ (last.layers.isNone \/ last.layers.len = 0) => last.raised # ""
           /\ last.raised = "" => get_aux_hidden_state_layers # <<>>

\* C5: the gate's outcome for every (requested, capability) pair: Full for
\* an Unrestricted backend or a request within the available layers,
\* Partial(requested /\ available, requested - available) when only part is
\* available, Unavailable when nothing is; honored and dropped are disjoint,
\* together they are the request, and a Partial outcome honors something.
C5_GateClassifies ==
    (output.phase # "idle" /\ request.enabled)
        => LET requested == request.layers
               available == capability.available
           IN  /\ capability.kind = "Unrestricted"
                    => (outcome.kind = "Full" /\ outcome.honored = requested)
               /\ (capability.kind = "Restricted" /\ requested \subseteq available)
                    => (outcome.kind = "Full" /\ outcome.honored = requested)
               /\ (/\ capability.kind = "Restricted"
                   /\ ~(requested \subseteq available)
                   /\ requested \cap available # {})
                    => /\ outcome.kind = "Partial"
                       /\ outcome.honored = requested \cap available
                       /\ outcome.dropped = requested \ available
               /\ (/\ capability.kind = "Restricted"
                   /\ ~(requested \subseteq available)
                   /\ requested \cap available = {})
                    => outcome.kind = "Unavailable"
               /\ outcome.honored \cap outcome.dropped = {}
               /\ outcome.kind \in {"Full", "Partial"}
                    => outcome.honored \cup outcome.dropped = requested
               /\ outcome.kind = "Partial" => outcome.honored # {}

\* The final-layer-only backend is asked for every layer: Partial, with the
\* final layer honored and the others dropped.
C5_Witness ==
    /\ output.phase = "configured"
    /\ request.enabled
    /\ request.layers = GateLayers
    /\ capability = [kind |-> "Restricted", available |-> {MaxGateLayers - 1}]
    /\ outcome = Partial({MaxGateLayers - 1}, GateLayers \ {MaxGateLayers - 1})

\* C6: an output's hidden_states is the absence marker exactly when the
\* request did not ask for extraction or the gate answered Unavailable;
\* otherwise it is a map keyed by exactly the honored layers (the request
\* for Full, request /\ available for Partial).
C6_AbsentOrKeyedByHonored ==
    output.phase = "done"
        => /\ output.isNone <=> (~request.enabled \/ outcome.kind = "Unavailable")
           /\ ~output.isNone
                => /\ DOMAIN output.map = outcome.honored
                   /\ outcome.kind = "Full" => DOMAIN output.map = request.layers
                   /\ outcome.kind = "Partial"
                        => DOMAIN output.map = request.layers \cap capability.available

\* An output of a Partial outcome: a map over the one honored layer.
C6_Witness ==
    /\ output.phase = "done"
    /\ outcome.kind = "Partial"
    /\ ~output.isNone
    /\ DOMAIN output.map = {MaxGateLayers - 1}
    /\ request.layers # {MaxGateLayers - 1}

\* C7: after a successful set_aux_hidden_state_layers(S),
\* get_aux_hidden_state_layers() is exactly S, whatever was stored before.
C7_SetThenGetReturnsSame ==
    (last.op = "set_aux" /\ last.raised = "")
        => get_aux_hidden_state_layers = last.param.items

\* A non-empty configuration has been replaced by the empty tuple.
C7_Witness ==
    /\ last.op = "set_aux"
    /\ last.raised = ""
    /\ last.wasEnabled
    /\ last.param.items = <<>>
    /\ get_aux_hidden_state_layers = <<>>

\* C8: on a mixin whose model exists, set_hidden_state_layers(None/False)
\* succeeds whether the layer count is known, unknown or zero, and leaves
\* the configuration empty and extraction disabled.
C8_DisabledAlwaysSucceeds ==
    (last.op = "set_hidden" /\ last.param.kind \in {"None", "False"} /\ last.hadModel)
        => /\ last.raised = ""
           /\ get_aux_hidden_state_layers = <<>>
           /\ ~has_hidden_states_enabled

\* Extraction was enabled and is disabled while the layer count is unknown.
C8_Witness ==
    /\ last.op = "set_hidden"
    /\ last.param.kind = "False"
    /\ last.hadModel
    /\ last.layers.isNone
    /\ last.wasEnabled
    /\ last.raised = ""
    /\ ~has_hidden_states_enabled

\* C9: whenever the layer count is known, every configured index i
\* satisfies 0 <= i < num_layers.
C9_ConfiguredIndicesInRange ==
    ~get_model_layers.isNone
        => \A i \in DOMAIN get_aux_hidden_state_layers :
               /\ 0 <= get_aux_hidden_state_layers[i]
               /\ get_aux_hidden_state_layers[i] < get_model_layers.len

\* C10: a step that ends with a failed set_aux_hidden_state_layers or
\* set_hidden_state_layers call leaves the stored configuration as it was.
C10_FailedCallKeepsConfiguration ==
    [][(last'.op \in {"set_aux", "set_hidden"} /\ last'.raised # "")
          => /\ get_aux_hidden_state_layers' = get_aux_hidden_state_layers
             /\ hasAttr' = hasAttr
             /\ aux_hidden_state_layers' = aux_hidden_state_layers]_vars

\* A call was rejected for an invalid index and the earlier, non-empty
\* configuration is still in place.
C10_Witness ==
    /\ last.op \in {"set_aux", "set_hidden"}
    /\ last.raised = "ValueError"
    /\ last.wasEnabled
    /\ has_hidden_states_enabled
    /\ get_aux_hidden_state_layers # last.param.items


\* C11 (as stated): every successful __init_hidden_states__() leaves the
\* configuration empty and extraction disabled, also on a model that already
\* carries a non-empty aux_hidden_state_layers; without a model the call
\* fails and attaches nothing.
C11_InitializeLeavesEmptyDefault ==
    last.op = "init"
        => /\ last.raised = ""
                => (get_aux_hidden_state_layers = <<>> /\ ~has_hidden_states_enabled)
           /\ ~last.hadModel => (last.raised # "" /\ ~hasAttr)

\* C11 (amended): a step that ends with __init_hidden_states__() as the last
\* call succeeds exactly when the model existed; a successful call leaves
\* the attribute attached and get_aux_hidden_state_layers() as it was (the
\* empty default when nothing was configured, the earlier configuration
\* when one was); a failed call attaches nothing.
C11_InitializeDefaultsOnlyWhenAbsent ==
    [][last'.op = "init"
          => /\ (last'.raised = "") <=> last'.hadModel
             /\ get_aux_hidden_state_layers' = get_aux_hidden_state_layers
             /\ last'.raised = "" => hasAttr'
             /\ last'.raised # "" => (~hasAttr' /\ hasAttr' = hasAttr)
             /\ ~last'.wasEnabled
                  => (get_aux_hidden_state_layers' = <<>>
                        /\ ~has_hidden_states_enabled')]_vars

\* __init_hidden_states__() has succeeded on a model that carried a
\* non-empty configuration, and the configuration is still there.
C11_Witness ==
    /\ last.op = "init"
    /\ last.raised = ""
    /\ last.wasEnabled
    /\ has_hidden_states_enabled

====
